---- MODULE Spec2Model ----
(***************************************************************************)
(* video-server: the Socket.IO room membership handlers of src/index.ts.    *)
(*                                                                         *)
(* Strings are sequences of one-character strings, so that trim() and      *)
(* toUpperCase() are computed and not assumed.  A JavaScript Map is the    *)
(* sequence of its entries in insertion order.  The Socket.IO adapter is   *)
(* the function `groups` from a socket to the set of rooms it is in.       *)
(***************************************************************************)
EXTENDS Integers, Sequences, FiniteSets, TLC

(* ------------------------------ bounds --------------------------------- *)

\* Number of events (video:join, video:leave, disconnect) handled in a run.
MaxEvents == 3

\* The sockets that may connect during a run.
Conns == {"s1", "s2"}

(* ------------------------------ strings -------------------------------- *)

\* The value of a payload field that is absent (undefined), and of an unset
\* field of socket.data.
Undefined == <<"undefined">>

Guest == <<"G", "u", "e", "s", "t">>

\* String(v || ""): undefined and "" are falsy and give "".
Str(v) == IF v = Undefined THEN <<>> ELSE v

IsSpace(ch) == ch = " "

RECURSIVE TrimStart(_)
TrimStart(s) ==
    IF s # <<>> /\ IsSpace(Head(s)) THEN TrimStart(Tail(s)) ELSE s

RECURSIVE TrimEnd(_)
TrimEnd(s) ==
    IF s # <<>> /\ IsSpace(s[Len(s)]) THEN TrimEnd(SubSeq(s, 1, Len(s) - 1)) ELSE s

\* Mutant: only the leading white space is removed.
TrimStartOnly(s) == TrimStart(s)

\* String.prototype.trim
Trim(s) == TrimEnd(TrimStart(s))

UpperChar(ch) ==
    CASE ch = "x" -> "X"
      [] ch = "y" -> "Y"
      [] ch = "u" -> "U"
      [] ch = "v" -> "V"
      [] ch = "n" -> "N"
      [] ch = "p" -> "P"
      [] ch = "q" -> "Q"
      [] OTHER -> ch

\* String.prototype.toUpperCase
ToUpperCase(s) == [i \in 1..Len(s) |-> UpperChar(s[i])]

\* Mutant: the room id is not trimmed.
normRoomIdNoTrim(id) == ToUpperCase(Str(id))

\* function normRoomId(id)
normRoomId(id) == ToUpperCase(Trim(Str(id)))

\* Mutant: the name is trimmed and no default is given.
DisplayNameNoDefault(v) == Trim(Str(v))

\* String(payload?.name || "").trim() || "Guest"
DisplayName(v) == IF Trim(Str(v)) = <<>> THEN Guest ELSE Trim(Str(v))

(* ------------------------------- Map ----------------------------------- *)

\* A Map is a sequence of entries [key, val], in insertion order.
MapHas(m, k) == \E i \in 1..Len(m) : m[i].key = k

MapGet(m, k) == m[CHOOSE i \in 1..Len(m) : m[i].key = k].val

MapKeys(m) == {m[i].key : i \in 1..Len(m)}

\* Mutant: pushes an entry without looking for the key.
MapSetAppend(m, k, v) == Append(m, [key |-> k, val |-> v])

\* Map.prototype.set: an existing key keeps its position.
MapSet(m, k, v) ==
    IF MapHas(m, k)
    THEN [i \in 1..Len(m) |-> IF m[i].key = k THEN [key |-> k, val |-> v] ELSE m[i]]
    ELSE Append(m, [key |-> k, val |-> v])

\* Mutant: map.clear() in the place of map.delete(uid).
MapDeleteAll(m, k) == <<>>

\* Map.prototype.delete
MapDelete(m, k) == SelectSeq(m, LAMBDA e : e.key # k)

\* Map.prototype.size
MapSize(m) == Len(m)

\* Array.from(map.values())
MapValues(m) == [i \in 1..Len(m) |-> m[i].val]

(* ------------------------------ payloads ------------------------------- *)

Payload(roomId, uid, name, peerId) ==
    [roomId |-> roomId, uid |-> uid, name |-> name, peerId |-> peerId]

\* Spellings of the room ids "X" and "Y", of the uids "u" and "v", of the names
\* "Guest" (absent) and "n", and of the peer ids "p" and "q".
RoomIdInputs == {<<" ", "x">>, <<"y", " ">>}

UidInputs == {<<"u", " ">>, <<"v">>}

NameInputs == {Undefined, <<"n", " ">>}

PeerIdInputs == {<<"p">>, <<" ", "q">>}

\* Other spellings of the same values: an upper-case room id, a blank name.
OtherSpellings ==
    {Payload(<<"X">>, <<"u">>, <<" ">>, <<"p">>),
     Payload(<<"X", " ">>, <<" ", "v">>, <<" ", "n">>, <<"q">>),
     Payload(<<"Y">>, <<"u">>, <<>>, <<"q", " ">>)}

ValidJoinPayloads ==
    {Payload(r, u, n, p) : r \in RoomIdInputs, u \in UidInputs,
                           n \in NameInputs, p \in PeerIdInputs}
    \cup OtherSpellings

\* Payloads with a required field absent, empty or blank, and no payload at all.
InvalidJoinPayloads ==
    {Payload(<<" ">>, <<"u">>, <<"n">>, <<"p">>),
     Payload(<<"x">>, Undefined, <<"n">>, <<"p">>),
     Payload(<<"x">>, <<"u">>, <<"n">>, <<" ">>),
     Payload(<<"y">>, <<"v">>, Undefined, <<>>),
     Payload(Undefined, Undefined, Undefined, Undefined)}

JoinPayloads == ValidJoinPayloads \cup InvalidJoinPayloads

LeavePayloads ==
    {Payload(r, u, Undefined, Undefined) : r \in RoomIdInputs, u \in UidInputs}
    \cup {Payload(<<"X">>, <<"u">>, Undefined, Undefined),
          Payload(<<" ">>, <<"u">>, Undefined, Undefined),
          Payload(<<"x">>, <<" ">>, Undefined, Undefined),
          Payload(Undefined, Undefined, Undefined, Undefined)}

(* ------------------------------- state --------------------------------- *)

VARIABLES
    rooms,      \* const rooms = new Map<string, Map<string, VideoUser>>()
    status,     \* per socket: "new" (not connected yet), "open", "closed"
    data,       \* per socket: socket.data, the fields rid and uid
    groups,     \* per socket: the Socket.IO rooms the socket has joined
    last,       \* the last event handled: the handler's locals and what it sent
    owner,      \* history: which socket's join stored the record of (rid, uid)
    present,    \* history: per socket, the rooms joined and not left since
    everJoined, \* history: the sockets that have made a successful join
    nEvents     \* number of events handled so far

vars == <<rooms, status, data, groups, last, owner, present, everJoined, nEvents>>

NoData == [rid |-> Undefined, uid |-> Undefined]

\* The reply handed to the acknowledgement callback of video:join.
NoAck == [sent |-> FALSE, ok |-> FALSE, error |-> "", peers |-> <<>>]

BadRequestAck == [sent |-> TRUE, ok |-> FALSE, error |-> "BAD_REQUEST", peers |-> <<>>]

OkAck(peers) == [sent |-> TRUE, ok |-> TRUE, error |-> "", peers |-> peers]

NoEmit == [event |-> "none", uid |-> <<>>, name |-> <<>>, peerId |-> <<>>, to |-> {}]

\* Mutant: io.to(rid) in the place of socket.to(rid), the sender included.
RecipientsWithSender(c, rid, g) == {d \in Conns : rid \in g[d]}

\* Mutant: socket.broadcast in the place of socket.to(rid), every connected
\* socket but the sender.
RecipientsEveryone(c, rid, g) == {d \in Conns : d # c /\ status[d] = "open"}

\* socket.to(rid): every socket that is in the adapter's room rid, the sender
\* excepted; g is the adapter's state when the event is emitted.
Recipients(c, rid, g) == {d \in Conns : d # c /\ rid \in g[d]}

UserJoined(c, rid, uid, name, peerId, g) ==
    [event |-> "video:user-joined", uid |-> uid, name |-> name, peerId |-> peerId,
     to |-> Recipients(c, rid, g)]

\* socket.to(rid).emit("video:user-left", { uid })
UserLeft(c, rid, uid, g) ==
    [event |-> "video:user-left", uid |-> uid, name |-> <<>>, peerId |-> <<>>,
     to |-> Recipients(c, rid, g)]

\* What is recorded of an event: the room id as the payload spells it, the
\* handler's locals, whether the room's map held an entry for uid before map.set
\* or map.delete, the acknowledgement and the broadcast.
Event(op, c, roomId, rid, uid, name, peerId, had, ack, emit) ==
    [op |-> op, conn |-> c, roomId |-> roomId, rid |-> rid, uid |-> uid,
     name |-> name, peerId |-> peerId, had |-> had, ack |-> ack, emit |-> emit]

\* new Map()
EmptyRooms == [k \in {} |-> <<>>]

NoOwner == [k \in {} |-> "none"]

Init ==
    /\ rooms = EmptyRooms
    /\ status = [c \in Conns |-> "new"]
    /\ data = [c \in Conns |-> NoData]
    /\ groups = [c \in Conns |-> {}]
    /\ last = Event("none", "none", Undefined, <<>>, <<>>, <<>>, <<>>, FALSE, NoAck, NoEmit)
    /\ owner = NoOwner
    /\ present = [c \in Conns |-> {}]
    /\ everJoined = {}
    /\ nEvents = 0

\* Mutant: the peer id is not checked.
BadRequestNoPeerId(rid, uid, peerId) == rid = <<>> \/ uid = <<>>

\* if (!rid || !uid || !peerId)
BadRequest(rid, uid, peerId) == rid = <<>> \/ uid = <<>> \/ peerId = <<>>

\* if (!rid || !uid) return, in video:leave
LeaveIgnored(rid, uid) == rid = <<>> \/ uid = <<>>

\* Mutant: the session is kept in one place for all sockets, so that a socket
\* reads the session of the join handled just before.
SessionOfShared(c) ==
    IF last.op = "join" /\ last.ack.ok
    THEN [rid |-> last.rid, uid |-> last.uid]
    ELSE data[c]

\* socket.data?.rid, socket.data?.uid
SessionOf(c) == data[c]

\* if (!rid || !uid) return, in disconnect
NoSession(rid, uid) == rid = Undefined \/ rid = <<>> \/ uid = Undefined \/ uid = <<>>

\* rooms.get(rid) ?? new Map()
RoomsGetOrNew(rid) == IF rid \in DOMAIN rooms THEN rooms[rid] ELSE <<>>

\* rooms.set(rid, map)
RoomsSet(rid, map) == [k \in DOMAIN rooms \cup {rid} |-> IF k = rid THEN map ELSE rooms[k]]

\* rooms.delete(rid)
RoomsDelete(rid) == [k \in DOMAIN rooms \ {rid} |-> rooms[k]]

\* Mutant: the record is put in a new Map whatever rooms holds for rid.
AddMemberToNewMap(rid, uid, name, peerId) ==
    RoomsSet(rid, MapSet(<<>>, uid, [uid |-> uid, name |-> name, peerId |-> peerId]))

\* map.set(uid, {uid, name, peerId}); rooms.set(rid, map)
AddMember(rid, uid, name, peerId) ==
    RoomsSet(rid, MapSet(RoomsGetOrNew(rid), uid,
                         [uid |-> uid, name |-> name, peerId |-> peerId]))

\* Mutant: the room is not deleted when its map becomes empty.
RemoveMemberNoPrune(rid, uid) == RoomsSet(rid, MapDelete(rooms[rid], uid))

\* Mutant: the room is deleted whatever its map still holds.
RemoveMemberDropsRoom(rid, uid) == RoomsDelete(rid)

\* map.delete(uid); if (map.size === 0) rooms.delete(rid)
RemoveMember(rid, uid) ==
    LET map == MapDelete(rooms[rid], uid)
    IN  IF MapSize(map) = 0 THEN RoomsDelete(rid) ELSE RoomsSet(rid, map)

\* socket.data.rid = rid; socket.data.uid = uid
DataAfterJoin(c, rid, uid) == [data EXCEPT ![c] = [rid |-> rid, uid |-> uid]]

\* Mutant: the socket is taken out of its other rooms when it joins one.
GroupsAfterJoinOnly(c, rid) == [groups EXCEPT ![c] = {rid}]

\* socket.join(rid)
GroupsAfterJoin(c, rid) == [groups EXCEPT ![c] = @ \cup {rid}]

\* socket.leave(rid)
GroupsAfterLeave(c, rid) == [groups EXCEPT ![c] = @ \ {rid}]

OwnerAfterRemove(rid, uid) ==
    [k \in DOMAIN owner \ {<<rid, uid>>} |-> owner[k]]

\* io.on("connection", ...)
Connect(c) ==
    /\ status[c] = "new"
    /\ status' = [status EXCEPT ![c] = "open"]
    /\ UNCHANGED <<rooms, data, groups, last, owner, present, everJoined, nEvents>>

\* socket.on("video:join", ...)
Join(c, payload) ==
    /\ status[c] = "open"
    /\ nEvents < MaxEvents
    /\ nEvents' = nEvents + 1
    /\ LET rid == normRoomId(payload.roomId)
           uid == Trim(Str(payload.uid))
           name == DisplayName(payload.name)
           peerId == Trim(Str(payload.peerId))
       IN  IF BadRequest(rid, uid, peerId)
           THEN /\ last' = Event("join", c, payload.roomId, rid, uid, name, peerId, FALSE,
                                 BadRequestAck, NoEmit)
                /\ UNCHANGED <<rooms, status, data, groups, owner, present, everJoined>>
           ELSE /\ rooms' = AddMember(rid, uid, name, peerId)
                /\ groups' = GroupsAfterJoin(c, rid)
                /\ data' = DataAfterJoin(c, rid, uid)
                /\ last' = Event("join", c, payload.roomId, rid, uid, name, peerId,
                                 MapHas(RoomsGetOrNew(rid), uid),
                                 OkAck(MapValues(rooms'[rid])),
                                 UserJoined(c, rid, uid, name, peerId, groups'))
                /\ owner' = [k \in DOMAIN owner \cup {<<rid, uid>>} |->
                                IF k = <<rid, uid>> THEN c ELSE owner[k]]
                /\ present' = [present EXCEPT ![c] = @ \cup {rid}]
                /\ everJoined' = everJoined \cup {c}
                /\ UNCHANGED status

\* socket.on("video:leave", ...)
Leave(c, payload) ==
    /\ status[c] = "open"
    /\ nEvents < MaxEvents
    /\ nEvents' = nEvents + 1
    /\ LET rid == normRoomId(payload.roomId)
           uid == Trim(Str(payload.uid))
       IN  IF LeaveIgnored(rid, uid)
           THEN /\ last' = Event("leave", c, payload.roomId, rid, uid, <<>>, <<>>, FALSE, NoAck, NoEmit)
                /\ UNCHANGED <<rooms, status, data, groups, owner, present, everJoined>>
           ELSE /\ present' = [present EXCEPT ![c] = @ \ {rid}]
                /\ IF rid \notin DOMAIN rooms
                   THEN /\ last' = Event("leave", c, payload.roomId, rid, uid, <<>>, <<>>, FALSE,
                                         NoAck, NoEmit)
                        /\ UNCHANGED <<rooms, status, data, groups, owner, everJoined>>
                   ELSE /\ rooms' = RemoveMember(rid, uid)
                        /\ owner' = OwnerAfterRemove(rid, uid)
                        /\ last' = Event("leave", c, payload.roomId, rid, uid, <<>>, <<>>,
                                         MapHas(rooms[rid], uid), NoAck,
                                         UserLeft(c, rid, uid, groups))
                        /\ groups' = GroupsAfterLeave(c, rid)
                        /\ UNCHANGED <<status, data, everJoined>>

\* socket.on("disconnect", ...): Socket.IO has taken the socket out of every
\* room before the handler runs.
Disconnect(c) ==
    /\ status[c] = "open"
    /\ nEvents < MaxEvents
    /\ nEvents' = nEvents + 1
    /\ status' = [status EXCEPT ![c] = "closed"]
    /\ groups' = [groups EXCEPT ![c] = {}]
    /\ present' = [present EXCEPT ![c] = {}]
    /\ LET rid == SessionOf(c).rid
           uid == SessionOf(c).uid
       IN  IF NoSession(rid, uid)
           THEN /\ last' = Event("disconnect", c, Undefined, <<>>, <<>>, <<>>, <<>>, FALSE,
                                 NoAck, NoEmit)
                /\ UNCHANGED <<rooms, data, owner, everJoined>>
           ELSE IF rid \notin DOMAIN rooms
           THEN /\ last' = Event("disconnect", c, Undefined, rid, uid, <<>>, <<>>, FALSE,
                                 NoAck, NoEmit)
                /\ UNCHANGED <<rooms, data, owner, everJoined>>
           ELSE /\ rooms' = RemoveMember(rid, uid)
                /\ owner' = OwnerAfterRemove(rid, uid)
                /\ last' = Event("disconnect", c, Undefined, rid, uid, <<>>, <<>>,
                                 MapHas(rooms[rid], uid), NoAck,
                                 UserLeft(c, rid, uid, groups'))
                /\ UNCHANGED <<data, everJoined>>

Next ==
    \/ \E c \in Conns : Connect(c)
    \/ \E c \in Conns, payload \in JoinPayloads : Join(c, payload)
    \/ \E c \in Conns, payload \in LeavePayloads : Leave(c, payload)
    \/ \E c \in Conns : Disconnect(c)

Spec == Init /\ [][Next]_vars

(* ------------------------------- claims -------------------------------- *)

\* A payload field that is absent, empty or all white space.
Blank(v) == v = Undefined \/ \A i \in 1..Len(v) : v[i] = " "

\* t is s without its leading and trailing white space.
IsTrimOf(t, s) ==
    \E i, j \in 0..Len(s) :
        /\ i + j <= Len(s)
        /\ t = SubSeq(s, i + 1, Len(s) - j)
        /\ \A k \in 1..i : s[k] = " "
        /\ \A k \in (Len(s) - j + 1)..Len(s) : s[k] = " "
        /\ t # <<>> => t[1] # " " /\ t[Len(t)] # " "

\* The payload has the three required fields.
ValidJoin(payload) ==
    ~Blank(payload.roomId) /\ ~Blank(payload.uid) /\ ~Blank(payload.peerId)

\* The record a valid join payload asks to store.
IsRecordOf(rec, payload) ==
    /\ DOMAIN rec = {"uid", "name", "peerId"}
    /\ IsTrimOf(rec.uid, payload.uid)
    /\ IsTrimOf(rec.peerId, payload.peerId)
    /\ IF Blank(payload.name) THEN rec.name = Guest ELSE IsTrimOf(rec.name, payload.name)

\* The records of a room other than the one of uid (none when the room is not stored).
OthersIn(reg, rid, uid) ==
    IF rid \in DOMAIN reg
    THEN {reg[rid][i].val : i \in {j \in 1..Len(reg[rid]) : reg[rid][j].key # uid}}
    ELSE {}

\* The locals the video:join handler computes from a payload.
JoinLocals(payload) ==
    <<normRoomId(payload.roomId), Trim(Str(payload.uid)),
      DisplayName(payload.name), Trim(Str(payload.peerId))>>

\* The payloads that give the handler the same locals, by locals.
JoinPayloadsOf ==
    [t \in {JoinLocals(p) : p \in JoinPayloads} |->
        {p \in JoinPayloads : JoinLocals(p) = t}]

\* The locals the video:leave handler computes from a payload.
LeaveLocals(payload) == <<normRoomId(payload.roomId), Trim(Str(payload.uid))>>

LeavePayloadsOf ==
    [t \in {LeaveLocals(p) : p \in LeavePayloads} |->
        {p \in LeavePayloads : LeaveLocals(p) = t}]

\* The payloads whose handling by socket c the step may be: those that give the
\* locals recorded in last'.
JoinsOf(c) ==
    IF last'.op = "join" /\ last'.conn = c
    THEN JoinPayloadsOf[<<last'.rid, last'.uid, last'.name, last'.peerId>>]
    ELSE {}

LeavesOf(c) ==
    IF last'.op = "leave" /\ last'.conn = c
    THEN LeavePayloadsOf[<<last'.rid, last'.uid>>]
    ELSE {}

RoomsPruned == \A rid \in DOMAIN rooms : MapSize(rooms[rid]) > 0

\* C1: a room id is a key of the registry only with a non-empty member map: no
\* empty room is stored after any event, a leave or disconnect that removes the last
\* member leaves the key absent, and a successful join to a room id that is not a
\* key is acknowledged with a peer list holding the joiner alone.
C1_RoomKeyIffNonEmpty ==
    [][ /\ RoomsPruned'
        /\ \A rid \in DOMAIN rooms :
              (last'.op \in {"leave", "disconnect"} /\ last'.rid = rid /\ last'.had
                 /\ MapKeys(rooms[rid]) = {last'.uid}) => rid \notin DOMAIN rooms'
        /\ \A c \in Conns : \A payload \in JoinsOf(c) :
              (/\ Join(c, payload) /\ ValidJoin(payload)
               /\ last'.rid \notin DOMAIN rooms)
              => /\ last'.ack.ok
                 /\ Len(last'.ack.peers) = 1
                 /\ IsRecordOf(last'.ack.peers[1], payload) ]_vars

\* A leave or disconnect has just removed the last member of a room.
C1_Witness ==
    /\ last.op \in {"leave", "disconnect"}
    /\ last.had
    /\ last.rid \notin DOMAIN rooms

\* C2: once a connection has disconnected, no record stored by one of its joins
\* is left in the registry.
C2_NoRecordOfClosedConnection ==
    \A k \in DOMAIN owner : status[owner[k]] # "closed"

\* C3: after a leave with a non-empty room id and uid has been handled, the
\* connection's session is empty.
C3_LeaveClearsSession ==
    (last.op = "leave" /\ last.rid # <<>> /\ last.uid # <<>>)
        => data[last.conn] = NoData

\* C4: a join with the three required fields is acknowledged ok:true with the
\* room's membership right after the insert: the joiner's record once, with the
\* trimmed uid, name (or Guest) and peer id submitted, and the records the other
\* uids had in the room before the join.
C4_JoinAckIsMembership ==
    [][ \A c \in Conns : \A payload \in JoinsOf(c) :
          (Join(c, payload) /\ ValidJoin(payload))
          => LET peers == last'.ack.peers
                 mine == {i \in 1..Len(peers) : IsTrimOf(peers[i].uid, payload.uid)}
             IN  /\ last'.ack.sent /\ last'.ack.ok
                 /\ last'.rid \in DOMAIN rooms'
                 /\ peers = MapValues(rooms'[last'.rid])
                 /\ Cardinality(mine) = 1
                 /\ \A i \in mine : IsRecordOf(peers[i], payload)
                 /\ {peers[i] : i \in (1..Len(peers)) \ mine}
                        = OthersIn(rooms, last'.rid, last'.uid) ]_vars

\* A join without a name has been acknowledged with two peers.
C4_Witness ==
    /\ last.op = "join"
    /\ last.ack.ok
    /\ Len(last.ack.peers) = 2
    /\ last.name = Guest

\* C5: a join with a required field missing is answered BAD_REQUEST and changes
\* neither the registry, nor the session, nor the socket's rooms, and broadcasts
\* nothing.
C5_BadRequestChangesNothing ==
    [][ \A c \in Conns : \A payload \in JoinsOf(c) :
          (Join(c, payload) /\ ~ValidJoin(payload))
          => /\ last'.ack = BadRequestAck
             /\ rooms' = rooms
             /\ data' = data
             /\ groups' = groups
             /\ last'.emit = NoEmit ]_vars

\* A join has been rejected while the registry holds a room.
C5_Witness ==
    /\ last.op = "join"
    /\ last.ack = BadRequestAck
    /\ DOMAIN rooms # {}

\* C6: the disconnect of a connection that never made a successful join leaves
\* the registry unchanged and broadcasts no user-left.
C6_DisconnectWithoutJoin ==
    [][ \A c \in Conns :
          (Disconnect(c) /\ c \notin everJoined)
          => /\ rooms' = rooms
             /\ last'.emit = NoEmit ]_vars

\* A connection that never joined has disconnected while the registry holds a room.
C6_Witness ==
    /\ last.op = "disconnect"
    /\ last.conn \notin everJoined
    /\ DOMAIN rooms # {}

\* C7: when a connection whose session is (R, u) disconnects while R holds other
\* members, user-left {u} goes to every other connection joined to R, the record
\* of u is removed from R and the other records of R are unchanged.
C7_DisconnectNotifiesRoom ==
    [][ \A c \in Conns :
          (/\ Disconnect(c)
           /\ data[c].rid \in DOMAIN rooms
           /\ OthersIn(rooms, data[c].rid, data[c].uid) # {})
          => LET rid == data[c].rid
                 uid == data[c].uid
             IN  /\ last'.emit.event = "video:user-left"
                 /\ last'.emit.uid = uid
                 /\ \A d \in Conns \ {c} : rid \in present[d] => d \in last'.emit.to
                 /\ rid \in DOMAIN rooms'
                 /\ ~MapHas(rooms'[rid], uid)
                 /\ MapValues(rooms'[rid])
                        = SelectSeq(MapValues(rooms[rid]), LAMBDA r : r.uid # uid) ]_vars

\* A disconnect has removed a record and told a connection that is still in the room.
C7_Witness ==
    /\ last.op = "disconnect"
    /\ last.had
    /\ last.emit.to # {}
    /\ last.rid \in DOMAIN rooms

\* C8: a join of a (roomId, uid) pair that is already in the room is
\* acknowledged ok:true and replaces the stored record with the new values; the
\* member count and the other members' records are unchanged.
C8_RejoinReplaces ==
    [][ \A c \in Conns : \A payload \in JoinsOf(c) :
          (/\ Join(c, payload) /\ ValidJoin(payload)
           /\ last'.rid \in DOMAIN rooms
           /\ MapHas(rooms[last'.rid], last'.uid))
          => LET rid == last'.rid
                 uid == last'.uid
             IN  /\ last'.ack.ok
                 /\ rid \in DOMAIN rooms'
                 /\ MapSize(rooms'[rid]) = MapSize(rooms[rid])
                 /\ MapKeys(rooms'[rid]) = MapKeys(rooms[rid])
                 /\ IsRecordOf(MapGet(rooms'[rid], uid), payload)
                 /\ \A k \in MapKeys(rooms[rid]) \ {uid} :
                        MapGet(rooms'[rid], k) = MapGet(rooms[rid], k) ]_vars

\* A uid has joined again a room that holds another member.
C8_Witness ==
    /\ last.op = "join"
    /\ last.had
    /\ last.ack.ok
    /\ Len(last.ack.peers) = 2

\* C9: on a successful join by c to R, user-joined {uid, displayName,
\* mediaSessionId} is delivered to every other connection that joined R and has
\* neither left R nor disconnected since, and never to c.
C9_UserJoinedToOthers ==
    [][ \A c \in Conns : \A payload \in JoinsOf(c) :
          (Join(c, payload) /\ ValidJoin(payload))
          => /\ last'.emit.event = "video:user-joined"
             /\ IsRecordOf([uid |-> last'.emit.uid, name |-> last'.emit.name,
                            peerId |-> last'.emit.peerId], payload)
             /\ c \notin last'.emit.to
             /\ \A d \in Conns \ {c} :
                    (status[d] = "open" /\ last'.rid \in present[d]) => d \in last'.emit.to ]_vars

\* A successful join has been told to another connection of the room.
C9_Witness ==
    /\ last.op = "join"
    /\ last.ack.ok
    /\ last.emit.event = "video:user-joined"
    /\ last.emit.to # {}

\* C10: a leave for a uid that is not a member of the room, or for a room id that
\* is not in the registry, leaves the registry as it was.
C10_LeaveOfNonMember ==
    [][ \A c \in Conns : \A payload \in LeavesOf(c) :
          (/\ Leave(c, payload)
           /\ \/ last'.rid \notin DOMAIN rooms
              \/ ~MapHas(rooms[last'.rid], last'.uid))
          => rooms' = rooms ]_vars

\* A leave for a uid that is not in an existing room has been handled.
C10_Witness ==
    /\ last.op = "leave"
    /\ last.rid \in DOMAIN rooms
    /\ ~last.had
    /\ last.emit.event = "video:user-left"

\* C11: a second successful join by a connection whose session is (R1, u1), to
\* another pair (R2, u2), sets the session to (R2, u2) and leaves nothing: the
\* record of u1 in R1 is unchanged, no user-left is broadcast, and the connection
\* stays in the broadcast group of R1.
C11_RejoinOverwritesSession ==
    [][ \A c \in Conns : \A payload \in JoinsOf(c) :
          (/\ Join(c, payload) /\ ValidJoin(payload)
           /\ data[c] # NoData
           /\ <<last'.rid, last'.uid>> # <<data[c].rid, data[c].uid>>)
          => LET r1 == data[c].rid
                 u1 == data[c].uid
             IN  /\ data'[c].rid = last'.rid
                 /\ IsTrimOf(data'[c].uid, payload.uid)
                 /\ (r1 \in DOMAIN rooms /\ MapHas(rooms[r1], u1))
                      => /\ r1 \in DOMAIN rooms'
                         /\ MapHas(rooms'[r1], u1)
                         /\ MapGet(rooms'[r1], u1) = MapGet(rooms[r1], u1)
                 /\ last'.emit.event # "video:user-left"
                 /\ r1 \in groups[c] => r1 \in groups'[c] ]_vars

\* A connection has joined a second room and is in the broadcast groups of both.
C11_Witness ==
    /\ last.op = "join"
    /\ last.ack.ok
    /\ Cardinality(groups[last.conn]) = 2
    /\ Cardinality(DOMAIN rooms) = 2

\* The letters of the room ids, lower case and upper case.
CasePairs == {<<"x", "X">>, <<"y", "Y">>}

SameLetter(a, b) == a = b \/ <<a, b>> \in CasePairs \/ <<b, a>> \in CasePairs

\* s1 and s2 differ only in letter case and in leading and trailing white space.
SameRoomId(s1, s2) ==
    \E t1 \in {SubSeq(s1, i, j) : i \in 1..(Len(s1) + 1), j \in 0..Len(s1)} :
    \E t2 \in {SubSeq(s2, i, j) : i \in 1..(Len(s2) + 1), j \in 0..Len(s2)} :
        /\ IsTrimOf(t1, s1)
        /\ IsTrimOf(t2, s2)
        /\ Len(t1) = Len(t2)
        /\ \A k \in 1..Len(t1) : SameLetter(t1[k], t2[k])

\* The room ids of up to three characters.
RoomIdChars == {" ", "x", "X", "y"}

RoomIdSpellings ==
    {<<>>} \cup {<<a>> : a \in RoomIdChars}
           \cup {<<a, b>> : a, b \in RoomIdChars}
           \cup {<<a, b, d>> : a, b, d \in RoomIdChars}

\* normRoomId is idempotent and gives one key to the spellings of a room id.
NormRoomIdLaws ==
    /\ \A x \in RoomIdSpellings : normRoomId(normRoomId(x)) = normRoomId(x)
    /\ \A x, y \in RoomIdSpellings : SameRoomId(x, y) => normRoomId(x) = normRoomId(y)

\* The room ids that payloads carry.
PayloadRoomIds ==
    {p.roomId : p \in JoinPayloads \cup LeavePayloads} \ {Undefined}

\* The keys that the spellings of a payload's room id normalize to, by room id.
KeysOfSpellings ==
    [s \in PayloadRoomIds |->
        {normRoomId(x) : x \in {y \in RoomIdSpellings : SameRoomId(y, s)}}]

\* Every room but those of keys is as it was.
OtherRoomsUnchanged(keys) ==
    \A k \in (DOMAIN rooms \cup DOMAIN rooms') \ keys :
        k \in DOMAIN rooms /\ k \in DOMAIN rooms' /\ rooms'[k] = rooms[k]

\* C12: room id normalization is idempotent and two room ids that differ only in
\* letter case and leading or trailing white space normalize to the same key, so
\* that a join or a leave with either spelling acts on the same room: the one
\* stored under the key that any spelling of the payload's room id normalizes to.
C12_NormRoomId ==
    [][ /\ NormRoomIdLaws
        /\ \A c \in Conns : \A payload \in JoinsOf(c) :
              (Join(c, payload) /\ ValidJoin(payload))
              => \A key \in KeysOfSpellings[payload.roomId] :
                    /\ key \in DOMAIN rooms'
                    /\ MapHas(rooms'[key], last'.uid)
                    /\ OtherRoomsUnchanged({key})
        /\ \A c \in Conns : \A payload \in LeavesOf(c) :
              (Leave(c, payload) /\ ~Blank(payload.roomId) /\ ~Blank(payload.uid))
              => \A key \in KeysOfSpellings[payload.roomId] :
                    /\ key \in DOMAIN rooms' => ~MapHas(rooms'[key], last'.uid)
                    /\ OtherRoomsUnchanged({key})
      ]_vars

\* A join that spells the room "X " has found in it a member that joined under
\* another spelling (" x" or "X").
C12_Witness ==
    /\ last.op = "join"
    /\ last.roomId = <<"X", " ">>
    /\ last.ack.ok
    /\ Len(last.ack.peers) = 2

\* C13: after a leave with a non-empty room id and uid, the sending connection
\* is no longer in the broadcast group of that room.
C13_LeaveDetaches ==
    (last.op = "leave" /\ last.rid # <<>> /\ last.uid # <<>>)
        => last.rid \notin groups[last.conn]

\* C14: a valid leave broadcasts user-left exactly when the room is in the
\* registry after the removal: it is emitted when the room is still stored, and
\* reaches nobody when the room is absent after the leave.
C14_UserLeftIffRoomRemains ==
    (last.op = "leave" /\ last.rid # <<>> /\ last.uid # <<>>)
        => /\ last.rid \in DOMAIN rooms => last.emit.event = "video:user-left"
           /\ last.rid \notin DOMAIN rooms => last.emit.to = {}

\* C15: joins are handled one at a time.  When a connection's valid join is
\* handled and the room holds the record that another connection, still in the
\* room, stored under another uid, the room holds both records afterwards, the
\* acknowledgement lists both uids and the other connection gets user-joined.
C15_JoinsSerialized ==
    [][ \A c \in Conns : \A payload \in JoinsOf(c) :
          (Join(c, payload) /\ ValidJoin(payload))
          => \A k \in DOMAIN owner :
                (/\ k[1] = last'.rid
                 /\ k[2] # last'.uid
                 /\ owner[k] # c
                 /\ k[1] \in present[owner[k]])
                => /\ last'.rid \in DOMAIN rooms'
                   /\ {k[2], last'.uid} \subseteq MapKeys(rooms'[last'.rid])
                   /\ last'.ack.ok
                   /\ {k[2], last'.uid}
                        \subseteq {last'.ack.peers[i].uid : i \in 1..Len(last'.ack.peers)}
                   /\ last'.emit.event = "video:user-joined"
                   /\ last'.emit.uid = last'.uid
                   /\ owner[k] \in last'.emit.to ]_vars

\* Two connections have joined one room under two uids, one after the other.
C15_Witness ==
    /\ last.op = "join"
    /\ last.ack.ok
    /\ Len(last.ack.peers) = 2
    /\ \E k \in DOMAIN owner :
          k[1] = last.rid /\ k[2] # last.uid /\ owner[k] # last.conn
          /\ owner[k] \in last.emit.to

\* A string with no white space at either end.
NoOuterSpace(t) == t # <<>> => t[1] # " " /\ t[Len(t)] # " "

LowerCaseLetters == {p[1] : p \in CasePairs}

\* C16: the registry holds well-formed data only: no key is the empty string,
\* every key is trimmed and upper case (its own normalization), every record is
\* stored under its uid, and every record has a non-empty trimmed uid, a
\* non-empty trimmed mediaSessionId and a non-blank displayName.
C16_RegistryWellFormed ==
    \A rid \in DOMAIN rooms :
        /\ rid # <<>>
        /\ NoOuterSpace(rid)
        /\ \A i \in 1..Len(rid) : rid[i] \notin LowerCaseLetters
        /\ normRoomId(rid) = rid
        /\ \A i \in 1..Len(rooms[rid]) :
              LET e == rooms[rid][i]
              IN  /\ e.key = e.val.uid
                  /\ e.val.uid # <<>> /\ NoOuterSpace(e.val.uid)
                  /\ e.val.peerId # <<>> /\ NoOuterSpace(e.val.peerId)
                  /\ ~Blank(e.val.name)

\* A room holds two records, one of them under the default name.
C16_Witness ==
    \E rid \in DOMAIN rooms :
        /\ Len(rooms[rid]) = 2
        /\ \E i \in 1..2 : rooms[rid][i].val.name = Guest

\* C17: while a connected connection's latest successful join is to (R, u) and
\* it has sent no leave since, the registry holds a record for u in R; the leave
\* or disconnect of another connection does not remove it.  Stated for the step
\* that follows the join: the join is the event before, so that no leave of the
\* joiner lies between.
C17_SessionImpliesPresence ==
    [][ (/\ last.op = "join" /\ last.ack.ok
         /\ nEvents' = nEvents + 1
         /\ last'.conn # last.conn
         /\ last'.op \in {"leave", "disconnect"})
        => /\ status'[last.conn] = "open"
           /\ data'[last.conn] = [rid |-> last.rid, uid |-> last.uid]
           /\ last.rid \in DOMAIN rooms'
           /\ MapHas(rooms'[last.rid], last.uid) ]_vars

\* C18: a record for uid u in room R is removed only by a leave or disconnect
\* of a connection whose session is (R, u), and no connection receives a
\* user-left that names the uid of its own session.
C18_RemovalByOwnerOnly ==
    [][ /\ \A rid \in DOMAIN rooms : \A uid \in MapKeys(rooms[rid]) :
              (rid \notin DOMAIN rooms' \/ ~MapHas(rooms'[rid], uid))
              => /\ last'.op \in {"leave", "disconnect"}
                 /\ data[last'.conn] = [rid |-> rid, uid |-> uid]
        /\ (nEvents' = nEvents + 1 /\ last'.emit.event = "video:user-left")
              => \A d \in last'.emit.to :
                    data[d] # [rid |-> last'.rid, uid |-> last'.emit.uid] ]_vars

\* C19: an event that acts on room R changes no other room, and its user-joined
\* or user-left goes to no connection that is not in the broadcast group of R.
C19_RoomIsolation ==
    [][ nEvents' = nEvents + 1
        => /\ OtherRoomsUnchanged({last'.rid})
           /\ \A d \in last'.emit.to : last'.rid \in groups[d] ]_vars

\* An event has been broadcast to a room while another room is stored and a
\* connection is in the other room's broadcast group only.
C19_Witness ==
    /\ last.emit.event # "none"
    /\ \E k \in DOMAIN rooms : k # last.rid
    /\ \E d \in Conns \ {last.conn} : groups[d] # {} /\ last.rid \notin groups[d]

====
